---- MODULE Spec2Model ----
(***************************************************************************)
(* ff-log-cli: list, delete, back up or view the log files of one          *)
(* directory.  The model covers main (src/main.rs) and the four commands   *)
(* (src/commands/*.rs) over an abstract filesystem: the entries of the     *)
(* target directory and of its bak subdirectory.                           *)
(***************************************************************************)
EXTENDS Integers, Sequences, FiniteSets, TLC

\* ------------------------------------------------------------------ bounds
\* Number of distinct entry names that may occur in the target directory
\* (the first one is always "bak").
MaxNames == 3
AllNames == <<"bak", "a.log", "b.log", "c.log", "d.log", "e.log">>
Names == {AllNames[i] : i \in 1..MaxNames}

\* ------------------------------------------------------- filesystem model
\* A path is the sequence of components below the target directory; <<>>
\* is the target directory itself.
Absent == [kind |-> "absent", content |-> "", ro |-> FALSE]
Dir == [kind |-> "dir", content |-> "", ro |-> FALSE]
File(c, ro) == [kind |-> "file", content |-> c, ro |-> ro]

\* Content that is not valid UTF-8: read_to_string fails on it.
BIN == "\\xFF"

Paths == {<<n>> : n \in Names} \cup {<<"bak", n>> : n \in Names}

Node(f, p) == IF p = <<>> THEN Dir ELSE IF p \in DOMAIN f THEN f[p] ELSE Absent

is_dir(f, p) == Node(f, p).kind = "dir"
is_file(f, p) == Node(f, p).kind = "file"
exists(f, p) == Node(f, p).kind # "absent"

Pop(p) == SubSeq(p, 1, Len(p) - 1)
FileName(p) == p[Len(p)]
Join(p, n) == Append(p, n)

\* std::fs::create_dir: fails when the path already exists (as anything) or
\* its parent is not a directory.
create_dir(f, p) ==
    IF ~exists(f, p) /\ is_dir(f, Pop(p)) /\ p \in DOMAIN f
    THEN [ok |-> TRUE, fs |-> [f EXCEPT ![p] = Dir]]
    ELSE [ok |-> FALSE, fs |-> f]

\* A rename that refuses to replace an existing destination.
rename_noreplace(f, from, to) ==
    IF is_file(f, from) /\ is_dir(f, Pop(to)) /\ ~exists(f, to) /\ to \in DOMAIN f
    THEN [ok |-> TRUE, fs |-> [f EXCEPT ![to] = f[from], ![from] = Absent]]
    ELSE [ok |-> FALSE, fs |-> f]

\* std::fs::rename of a non-directory source: fails when the source does not
\* exist, the destination's parent is not a directory, or the destination is
\* a directory; otherwise the destination is replaced.
rename(f, from, to) ==
    IF is_file(f, from) /\ is_dir(f, Pop(to)) /\ ~is_dir(f, to) /\ to \in DOMAIN f
    THEN [ok |-> TRUE, fs |-> [f EXCEPT ![to] = f[from], ![from] = Absent]]
    ELSE [ok |-> FALSE, fs |-> f]

\* std::fs::remove_file: fails on a missing path, a directory and a
\* read-only file (DeleteFile on Windows, the platform of the logs).
remove_file(f, p) ==
    IF is_file(f, p) /\ ~Node(f, p).ro
    THEN [ok |-> TRUE, fs |-> [f EXCEPT ![p] = Absent]]
    ELSE [ok |-> FALSE, fs |-> f]

\* std::fs::read_to_string: fails on anything but a file holding UTF-8 text.
read_to_string(f, p) ==
    IF is_file(f, p) /\ Node(f, p).content # BIN
    THEN [ok |-> TRUE, content |-> Node(f, p).content]
    ELSE [ok |-> FALSE, content |-> ""]

\* ------------------------------------------------------------ the commands
\* list_log_file
ListLogFile(p) ==
    IF p = <<>>
    THEN [out |-> <<>>, panic |-> "not a file"]
    ELSE [out |-> << <<"- ", <<FileName(p)>> >> >>, panic |-> ""]

\* delete_log_file
DeleteLogFile(f, p) ==
    LET r == remove_file(f, p)
    IN [fs |-> r.fs, ok |-> r.ok,
        out |-> << <<"Removing ", p>>,
                   IF r.ok THEN <<"Removed.", p>> ELSE <<"Failed: ", p>> >>]

\* A backup that reports a bak directory it cannot create and goes on.
BackupLogFile_ReportsCreateFailure(f, p) ==
    LET file_name == FileName(p)
        bak_dir == Join(Pop(p), "bak")
        need == ~is_dir(f, bak_dir)
        mk == create_dir(f, bak_dir)
    IN IF need /\ ~mk.ok
       THEN [fs |-> f, ok |-> FALSE,
             out |-> << <<"Moving ", <<file_name>> >>, <<"Failed: ", <<file_name>> >> >>,
             panic |-> "", created |-> FALSE]
       ELSE LET f1 == IF need THEN mk.fs ELSE f
                r == rename(f1, p, Join(bak_dir, file_name))
            IN [fs |-> r.fs, ok |-> r.ok,
                out |-> << <<"Moving ", <<file_name>> >>,
                           IF r.ok THEN <<"Moved.", <<file_name>> >>
                                   ELSE <<"Failed: ", <<file_name>> >> >>,
                panic |-> "", created |-> need]

\* backup_log_file
BackupLogFile(f, p) ==
    IF p = <<>>
    THEN [fs |-> f, ok |-> FALSE, out |-> <<>>, panic |-> "not a file", created |-> FALSE]
    ELSE
    LET file_name == FileName(p)
        bak_dir == Join(Pop(p), "bak")
        need == ~is_dir(f, bak_dir)
        mk == create_dir(f, bak_dir)
    IN IF need /\ ~mk.ok
       THEN [fs |-> f, ok |-> FALSE, out |-> << <<"Moving ", <<file_name>> >> >>,
             panic |-> "could not create backup dir", created |-> FALSE]
       ELSE LET f1 == IF need THEN mk.fs ELSE f
                r == rename(f1, p, Join(bak_dir, file_name))
            IN [fs |-> r.fs, ok |-> r.ok,
                out |-> << <<"Moving ", <<file_name>> >>,
                           IF r.ok THEN <<"Moved.", <<file_name>> >>
                                   ELSE <<"Failed: ", <<file_name>> >> >>,
                panic |-> "", created |-> need]

\* ------------------------------------------------------- view: the input
DigitChars == <<"0", "1", "2", "3", "4", "5", "6", "7", "8", "9">>
Digits == {DigitChars[i] : i \in 1..Len(DigitChars)}
DigitVal(c) == (CHOOSE i \in 1..Len(DigitChars) : DigitChars[i] = c) - 1
IsWhitespace(c) == c \in {" ", "\n", "\t", "\r"}

RECURSIVE TrimStart(_)
TrimStart(s) ==
    IF s # <<>> /\ IsWhitespace(Head(s)) THEN TrimStart(Tail(s)) ELSE s

RECURSIVE TrimEnd(_)
TrimEnd(s) ==
    IF s # <<>> /\ IsWhitespace(s[Len(s)]) THEN TrimEnd(SubSeq(s, 1, Len(s) - 1)) ELSE s

\* str::trim
Trim(s) == TrimEnd(TrimStart(s))

RECURSIVE DecimalValue(_)
DecimalValue(s) ==
    IF s = <<>> THEN 0
    ELSE DecimalValue(SubSeq(s, 1, Len(s) - 1)) * 10 + DigitVal(s[Len(s)])

\* str::parse::<usize>: an optional "+" and then one or more decimal digits
\* (the inputs of the model are too short to overflow a usize).
ParseUsize(s) ==
    LET body == IF s # <<>> /\ s[1] = "+" THEN Tail(s) ELSE s
    IN IF body # <<>> /\ \A i \in 1..Len(body) : body[i] \in Digits
       THEN [ok |-> TRUE, num |-> DecimalValue(body)]
       ELSE [ok |-> FALSE, num |-> 0]

\* The decimal text of a small number, as println! formats it.
RECURSIVE ToDecimal(_)
ToDecimal(n) ==
    IF n < 10 THEN <<DigitChars[n + 1]>>
    ELSE Append(ToDecimal(n \div 10), DigitChars[(n % 10) + 1])

\* "=".repeat(50)
SeparatorWidth == 50
Separator == [i \in 1..SeparatorWidth |-> "="]

\* What one read_line on standard input can give: a line (with its newline),
\* end of input (the empty string), or an error (bytes that are not UTF-8).
Line(s) == [ok |-> TRUE, line |-> s]
StdinInputs ==
    {Line(Append(ToDecimal(k), "\n")) : k \in 0..(MaxNames + 1)}
    \cup {Line(<<" ", "2", " ", "\n">>), Line(<<"+", "1", "\n">>), Line(<<"-", "1", "\n">>),
          Line(<<"0", "1", "\r", "\n">>), Line(<<"1", "a", "\n">>), Line(<<"\n">>), Line(<<>>),
          [ok |-> FALSE, line |-> <<>>]}

\* Indexing of a Vec, which counts from 0.
Index0(v, i) == v[i + 1]

\* The numbered listing: "<i+1>. <file-name>" for each enumerated file.
Listing(files) ==
    [i \in 1..Len(files) |-> <<"listing", Append(ToDecimal(i), FileName(files[i]))>>]

\* A selection that takes malformed input for the first file.
ViewSelect_DefaultsToFirst(f, files, line) ==
    LET parsed == ParseUsize(Trim(line))
        choice == IF parsed.ok THEN parsed.num ELSE 1
    IN IF choice = 0 \/ choice > Len(files)
       THEN [out |-> << <<"Invalid selection. Please choose a number between 1 and ",
                          ToDecimal(Len(files))>> >>, read |-> <<>>]
       ELSE LET selected_file == Index0(files, choice - 1)
                r == read_to_string(f, selected_file)
            IN [out |-> << <<"Contents of ", <<FileName(selected_file)>> >>,
                           <<"separator", Separator>>,
                           IF r.ok THEN <<"content", <<r.content>> >>
                                   ELSE <<"Error reading file: ", <<FileName(selected_file)>> >> >>,
                read |-> <<selected_file>>]

\* A selection that counts the files from the end of the listing.
ViewSelect_FromEnd(f, files, line) ==
    LET parsed == ParseUsize(Trim(line))
        choice == parsed.num
    IN IF ~parsed.ok
       THEN [out |-> << <<"Invalid input. Please enter a number.", <<>> >> >>, read |-> <<>>]
       ELSE IF choice = 0 \/ choice > Len(files)
       THEN [out |-> << <<"Invalid selection. Please choose a number between 1 and ",
                          ToDecimal(Len(files))>> >>, read |-> <<>>]
       ELSE LET selected_file == Index0(files, Len(files) - choice)
                r == read_to_string(f, selected_file)
            IN [out |-> << <<"Contents of ", <<FileName(selected_file)>> >>,
                           <<"separator", Separator>>,
                           IF r.ok THEN <<"content", <<r.content>> >>
                                   ELSE <<"Error reading file: ", <<FileName(selected_file)>> >> >>,
                read |-> <<selected_file>>]

\* The part of view_log_files after the line has been read.
ViewSelect(f, files, line) ==
    LET parsed == ParseUsize(Trim(line))
        choice == parsed.num
    IN IF ~parsed.ok
       THEN [out |-> << <<"Invalid input. Please enter a number.", <<>> >> >>, read |-> <<>>]
       ELSE IF choice = 0 \/ choice > Len(files)
       THEN [out |-> << <<"Invalid selection. Please choose a number between 1 and ",
                          ToDecimal(Len(files))>> >>, read |-> <<>>]
       ELSE LET selected_file == Index0(files, choice - 1)
                r == read_to_string(f, selected_file)
            IN [out |-> << <<"Contents of ", <<FileName(selected_file)>> >>,
                           <<"separator", Separator>>,
                           IF r.ok THEN <<"content", <<r.content>> >>
                                   ELSE <<"Error reading file: ", <<FileName(selected_file)>> >> >>,
                read |-> <<selected_file>>]

\* ------------------------------------------------------------ main: set-up
Unset == "<unset>"
HomeDir == "/home/u"
HomeValues == {Unset, HomeDir}
DefaultSuffix == "\\Advanced Combat Tracker\\FFXIVLogs"

\* A Config::new that also accepts a prefix of an operation's name.
ConfigNew_PrefixMatch(a) ==
    IF Len(a) < 3
    THEN [panic |-> TRUE, operation |-> "List", fflogs_dir |-> ""]
    ELSE [panic |-> FALSE,
          operation |-> CASE a[2] \in {"backup", "back"} -> "Backup"
                          [] a[2] = "delete" -> "Delete"
                          [] a[2] = "list" -> "List"
                          [] a[2] = "view" -> "View"
                          [] OTHER -> "List",
          fflogs_dir |-> a[3]]

\* Config::new
ConfigNew(a) ==
    IF Len(a) < 3
    THEN [panic |-> TRUE, operation |-> "List", fflogs_dir |-> ""]
    ELSE [panic |-> FALSE,
          operation |-> CASE a[2] = "backup" -> "Backup"
                          [] a[2] = "delete" -> "Delete"
                          [] a[2] = "list" -> "List"
                          [] a[2] = "view" -> "View"
                          [] OTHER -> "List",
          fflogs_dir |-> a[3]]

\* The target path main validates: the argument, or the default below the
\* home directory when the argument is "default".
ResolveDir(fflogs_dir, app_data) ==
    IF fflogs_dir = "default" THEN <<app_data, DefaultSuffix>> ELSE <<fflogs_dir>>

\* What the machine has at the paths an argument can name.
TargetKind(t) ==
    CASE t = <<"logs">> -> "dir"
      [] t = <<HomeDir, DefaultSuffix>> -> "dir"
      [] t = <<"notes.txt">> -> "file"
      [] OTHER -> "absent"

OperationArgs == {"list", "delete", "backup", "view", "LIST"}
DirArgs == {"default", "logs", "notes.txt", "nowhere"}
ArgLists ==
    {<<"ff-log-cli", o, d>> : o \in OperationArgs, d \in DirArgs}
    \cup {<<"ff-log-cli">>, <<"ff-log-cli", "list">>,
          <<"ff-log-cli", "view", "logs", "extra", "arguments">>}

\* ------------------------------------------------------------- the state
VARIABLES
    fs,         \* the entries of the target directory and of its bak directory
    pc,         \* where the run is
    caller,     \* "main" for a run of the program, "test" for a direct call
    home,       \* the value of HOME / APPDATA
    args,       \* the command line
    operation,  \* config.operation
    fflogs_dir, \* config.fflogs_dir
    path,       \* the target path (main) or log_dir (view_log_files)
    pending,    \* names read_dir has still to yield
    log_files,  \* view_log_files: the enumerated files
    out,        \* the lines written to standard output
    input,      \* what read_line gave, once it has been called
    reads,      \* the paths whose content has been read
    calls,      \* the calls of the per-file commands, with the filesystem before and after
    viewRet,    \* what view_log_files returned
    result,     \* how the run ended
    panicMsg    \* the message of the panic, when it ended in one

vars == <<fs, pc, caller, home, args, operation, fflogs_dir, path, pending, log_files, out,
          input, reads, calls, viewRet, result, panicMsg>>

NoInput == [ok |-> FALSE, line |-> <<"<none>">>]
\* No Config has been made yet.
NoDir == "<no config>"

\* The files and directories a run can find: any entry may be missing, a
\* directory or a file; only an existing bak directory has entries.
\* (a file may be read-only, and may hold bytes that are not text).
TopNodes == {Absent, Dir, File("x", FALSE), File("y", TRUE), File(BIN, FALSE)}
BakNodes == {Absent, Dir, File("old", FALSE)}

InitFS ==
    {[p \in Paths |-> IF Len(p) = 1 THEN top[p[1]] ELSE sub[p[2]]] :
        top \in [Names -> TopNodes], sub \in [Names -> BakNodes]}

Init ==
    /\ fs \in {f \in InitFS :
                 /\ f[<<"bak", "bak">>] = Absent
                 /\ ~is_dir(f, <<"bak">>) => \A n \in Names : f[<<"bak", n>>] = Absent}
    /\ pc = "idle"
    /\ caller = "none"
    /\ home = Unset
    /\ args = <<>>
    /\ operation = "List"
    /\ fflogs_dir = NoDir
    /\ path = <<>>
    /\ pending = {}
    /\ log_files = <<>>
    /\ out = <<>>
    /\ input = NoInput
    /\ reads = <<>>
    /\ calls = <<>>
    /\ viewRet = "none"
    /\ result = "running"
    /\ panicMsg = ""

Call(fn, p, ok, post) == [fn |-> fn, path |-> p, pre |-> fs, ok |-> ok, post |-> post]

Panic(msg) ==
    /\ pc' = "exit"
    /\ result' = "panic"
    /\ panicMsg' = msg

\* ------------------------------------------------------------------- main
\* A start that needs the home variable only for the "default" directory.
MainEnv_OnlyForDefault ==
    /\ pc = "idle"
    /\ \E a \in ArgLists, h \in HomeValues :
        /\ args' = a
        /\ home' = h
        /\ caller' = "main"
        /\ IF h = Unset /\ Len(a) >= 3 /\ a[3] = "default"
           THEN Panic("No HOME directory")
           ELSE pc' = "config" /\ UNCHANGED <<result, panicMsg>>
    /\ UNCHANGED <<fs, operation, fflogs_dir, path, pending, log_files, out, input, reads, calls, viewRet>>

\* main, lines 9-14: the process starts and reads the home variable.
MainEnv ==
    /\ pc = "idle"
    /\ \E a \in ArgLists, h \in HomeValues :
        /\ args' = a
        /\ home' = h
        /\ caller' = "main"
        /\ IF h = Unset
           THEN Panic("No HOME directory")
           ELSE pc' = "config" /\ UNCHANGED <<result, panicMsg>>
    /\ UNCHANGED <<fs, operation, fflogs_dir, path, pending, log_files, out, input, reads, calls, viewRet>>

\* main, lines 16-22: the configuration and the target path.
MainConfig ==
    /\ pc = "config"
    /\ LET config == ConfigNew(args)
       IN IF config.panic
          THEN Panic("not enough arguments") /\ UNCHANGED <<operation, fflogs_dir, path>>
          ELSE /\ operation' = config.operation
               /\ fflogs_dir' = config.fflogs_dir
               /\ path' = ResolveDir(config.fflogs_dir, home)
               /\ pc' = "validate"
               /\ UNCHANGED <<result, panicMsg>>
    /\ UNCHANGED <<fs, caller, home, args, pending, log_files, out, input, reads, calls, viewRet>>

\* A validation that only asks whether the target exists.
MainValidate_ExistsOnly ==
    /\ pc = "validate"
    /\ IF TargetKind(path) = "absent"
       THEN /\ out' = Append(out, <<"Not a valid directory: ", path>>)
            /\ result' = "Err(InvalidInput)"
            /\ pc' = "exit"
       ELSE /\ pc' = "dispatch"
            /\ UNCHANGED <<out, result>>
    /\ UNCHANGED <<fs, caller, home, args, operation, fflogs_dir, path, pending, log_files, input,
                   reads, calls, viewRet, panicMsg>>

\* main, lines 24-31: the target must be a directory.
MainValidate ==
    /\ pc = "validate"
    /\ IF TargetKind(path) # "dir"
       THEN /\ out' = Append(out, <<"Not a valid directory: ", path>>)
            /\ result' = "Err(InvalidInput)"
            /\ pc' = "exit"
       ELSE /\ pc' = "dispatch"
            /\ UNCHANGED <<out, result>>
    /\ UNCHANGED <<fs, caller, home, args, operation, fflogs_dir, path, pending, log_files, input,
                   reads, calls, viewRet, panicMsg>>

\* main, line 37: read_dir of the target directory.
MainReadDir ==
    /\ pc = "dispatch"
    /\ operation # "View"
    /\ pending' = {n \in Names : exists(fs, <<n>>)}
    /\ pc' = "loop"
    /\ UNCHANGED <<fs, caller, home, args, operation, fflogs_dir, path, log_files, out, input, reads,
                   calls, viewRet, result, panicMsg>>

\* main, lines 38-41: the entry is a directory.
LoopSkip ==
    /\ pc = "loop"
    /\ \E n \in pending :
        /\ is_dir(fs, <<n>>)
        /\ pending' = pending \ {n}
        /\ out' = Append(out, <<"Ignoring path as it is a directory: ", <<n>> >>)
    /\ UNCHANGED <<fs, pc, caller, home, args, operation, fflogs_dir, path, log_files, input, reads,
                   calls, viewRet, result, panicMsg>>

\* A loop that lists every entry, directory or not.
LoopList_NoDirCheck ==
    /\ pc = "loop"
    /\ operation = "List"
    /\ \E n \in pending :
        LET r == ListLogFile(<<n>>)
        IN /\ out' = out \o r.out
           /\ calls' = Append(calls, Call("list", <<n>>, r.panic = "", fs))
           /\ pending' = pending \ {n}
    /\ UNCHANGED <<fs, pc, caller, home, args, operation, fflogs_dir, path, log_files, input, reads,
                   viewRet, result, panicMsg>>

\* main, lines 44-46
LoopList ==
    /\ pc = "loop"
    /\ operation = "List"
    /\ \E n \in pending :
        /\ ~is_dir(fs, <<n>>)
        /\ LET r == ListLogFile(<<n>>)
           IN /\ out' = out \o r.out
              /\ calls' = Append(calls, Call("list", <<n>>, r.panic = "", fs))
              /\ IF r.panic # ""
                 THEN Panic(r.panic) /\ UNCHANGED pending
                 ELSE pending' = pending \ {n} /\ UNCHANGED <<pc, result, panicMsg>>
    /\ UNCHANGED <<fs, caller, home, args, operation, fflogs_dir, path, log_files, input, reads, viewRet>>

\* A loop that gives up on the first file it cannot remove.
LoopDelete_StopOnFailure ==
    /\ pc = "loop"
    /\ operation = "Delete"
    /\ \E n \in pending :
        /\ ~is_dir(fs, <<n>>)
        /\ LET r == DeleteLogFile(fs, <<n>>)
           IN /\ fs' = r.fs
              /\ out' = out \o r.out
              /\ calls' = Append(calls, Call("delete", <<n>>, r.ok, r.fs))
              /\ pending' = IF r.ok THEN pending \ {n} ELSE {}
    /\ UNCHANGED <<pc, caller, home, args, operation, fflogs_dir, path, log_files, input, reads,
                   viewRet, result, panicMsg>>

\* main, lines 50-52
LoopDelete ==
    /\ pc = "loop"
    /\ operation = "Delete"
    /\ \E n \in pending :
        /\ ~is_dir(fs, <<n>>)
        /\ LET r == DeleteLogFile(fs, <<n>>)
           IN /\ fs' = r.fs
              /\ out' = out \o r.out
              /\ calls' = Append(calls, Call("delete", <<n>>, r.ok, r.fs))
              /\ pending' = pending \ {n}
    /\ UNCHANGED <<pc, caller, home, args, operation, fflogs_dir, path, log_files, input, reads,
                   viewRet, result, panicMsg>>

\* A backup loop that passes every entry on, directory or not.
LoopBackup_NoDirCheck ==
    /\ pc = "loop"
    /\ operation = "Backup"
    /\ \E n \in pending :
        LET r == BackupLogFile(fs, <<n>>)
        IN /\ fs' = r.fs
           /\ out' = out \o r.out
           /\ calls' = Append(calls, Call("backup", <<n>>, r.ok, r.fs))
           /\ IF r.panic # ""
              THEN Panic(r.panic) /\ UNCHANGED pending
              ELSE /\ UNCHANGED <<pc, result, panicMsg>>
                   /\ \E seen \in (IF r.created THEN {{}, {"bak"}} ELSE {{}}) :
                         pending' = (pending \ {n}) \cup seen
    /\ UNCHANGED <<caller, home, args, operation, fflogs_dir, path, log_files, input, reads, viewRet>>

\* main, lines 47-49.  A bak directory created while the enumeration is
\* under way may or may not be yielded by it later.
LoopBackup ==
    /\ pc = "loop"
    /\ operation = "Backup"
    /\ \E n \in pending :
        /\ ~is_dir(fs, <<n>>)
        /\ LET r == BackupLogFile(fs, <<n>>)
           IN /\ fs' = r.fs
              /\ out' = out \o r.out
              /\ calls' = Append(calls, Call("backup", <<n>>, r.ok, r.fs))
              /\ IF r.panic # ""
                 THEN Panic(r.panic) /\ UNCHANGED pending
                 ELSE /\ UNCHANGED <<pc, result, panicMsg>>
                      /\ \E seen \in (IF r.created THEN {{}, {"bak"}} ELSE {{}}) :
                            pending' = (pending \ {n}) \cup seen
    /\ UNCHANGED <<caller, home, args, operation, fflogs_dir, path, log_files, input, reads, viewRet>>

\* main, lines 59-61, after the loop or after view_log_files returned Ok.
MainFinish ==
    /\ \/ pc = "loop" /\ pending = {}
       \/ pc = "view_ret" /\ caller = "main" /\ viewRet = "Ok"
    /\ out' = Append(out, <<"Completed in: ", <<>> >>)
    /\ result' = "Ok"
    /\ pc' = "exit"
    /\ UNCHANGED <<fs, caller, home, args, operation, fflogs_dir, path, pending, log_files, input,
                   reads, calls, viewRet, panicMsg>>

\* main, line 34: the ? on an error of view_log_files.
MainViewErr ==
    /\ pc = "view_ret" /\ caller = "main" /\ viewRet # "Ok"
    /\ result' = viewRet
    /\ pc' = "exit"
    /\ UNCHANGED <<fs, caller, home, args, operation, fflogs_dir, path, pending, log_files, out, input,
                   reads, calls, viewRet, panicMsg>>

\* main, line 34: the call of view_log_files.
MainCallView ==
    /\ pc = "dispatch"
    /\ operation = "View"
    /\ pc' = "view"
    /\ UNCHANGED <<fs, caller, home, args, operation, fflogs_dir, path, pending, log_files, out, input,
                   reads, calls, viewRet, result, panicMsg>>

\* ------------------------------------------------------------------- view
\* The orders in which read_dir can yield the members of S.
Orders(S) ==
    {s \in [1..Cardinality(S) -> S] : \A i, j \in 1..Cardinality(S) : i # j => s[i] # s[j]}

\* An enumeration that goes on to the listing even when it found no file.
ViewEnumerate_NoEmptyCheck ==
    /\ pc = "view"
    /\ IF TargetKind(path) # "dir"
       THEN /\ viewRet' = "Err(read_dir)"
            /\ pc' = "view_ret"
            /\ UNCHANGED <<log_files, out>>
       ELSE \E order \in Orders({<<n>> : n \in {m \in Names : is_file(fs, <<m>>)}}) :
            /\ log_files' = order
            /\ pc' = "view_list"
            /\ UNCHANGED <<out, viewRet>>
    /\ UNCHANGED <<fs, caller, home, args, operation, fflogs_dir, path, pending, input, reads, calls,
                   result, panicMsg>>

\* view_log_files, lines 6-19: the enumeration, and the empty case.
ViewEnumerate ==
    /\ pc = "view"
    /\ IF TargetKind(path) # "dir"
       THEN /\ viewRet' = "Err(read_dir)"
            /\ pc' = "view_ret"
            /\ UNCHANGED <<log_files, out>>
       ELSE \E order \in Orders({<<n>> : n \in {m \in Names : is_file(fs, <<m>>)}}) :
            /\ log_files' = order
            /\ IF order = <<>>
               THEN /\ out' = Append(out, <<"No log files found in directory: ", path>>)
                    /\ viewRet' = "Ok"
                    /\ pc' = "view_ret"
               ELSE /\ pc' = "view_list"
                    /\ UNCHANGED <<out, viewRet>>
    /\ UNCHANGED <<fs, caller, home, args, operation, fflogs_dir, path, pending, input, reads, calls,
                   result, panicMsg>>

\* view_log_files, lines 21-28: the listing, the prompt and its flush.
ViewPrompt ==
    /\ pc = "view_list"
    /\ out' = (Append(out, <<"Available log files:", <<>> >>) \o Listing(log_files))
                \o << <<"Enter the number of the file you want to view: ", <<>> >> >>
    /\ \E flushed \in BOOLEAN :
        IF flushed
        THEN pc' = "view_read" /\ UNCHANGED viewRet
        ELSE pc' = "view_ret" /\ viewRet' = "Err(flush)"
    /\ UNCHANGED <<fs, caller, home, args, operation, fflogs_dir, path, pending, log_files, input, reads,
                   calls, result, panicMsg>>

\* A view that returns an error for input that is not a number.
ViewRead_ErrOnBadInput ==
    /\ pc = "view_read"
    /\ \E in \in StdinInputs :
        /\ input' = in
        /\ IF ~in.ok
           THEN /\ viewRet' = "Err(read_line)"
                /\ UNCHANGED <<out, reads>>
           ELSE LET r == ViewSelect(fs, log_files, in.line)
                IN /\ out' = out \o r.out
                   /\ reads' = reads \o r.read
                   /\ viewRet' = IF ParseUsize(Trim(in.line)).ok THEN "Ok" ELSE "Err(parse)"
    /\ pc' = "view_ret"
    /\ UNCHANGED <<fs, caller, home, args, operation, fflogs_dir, path, pending, log_files, calls,
                   result, panicMsg>>

\* view_log_files, lines 30-55: the line is read, parsed and acted on.
ViewRead ==
    /\ pc = "view_read"
    /\ \E in \in StdinInputs :
        /\ input' = in
        /\ IF ~in.ok
           THEN /\ viewRet' = "Err(read_line)"
                /\ UNCHANGED <<out, reads>>
           ELSE LET r == ViewSelect(fs, log_files, in.line)
                IN /\ out' = out \o r.out
                   /\ reads' = reads \o r.read
                   /\ viewRet' = "Ok"
    /\ pc' = "view_ret"
    /\ UNCHANGED <<fs, caller, home, args, operation, fflogs_dir, path, pending, log_files, calls,
                   result, panicMsg>>

\* ----------------------------------------------- direct calls of a command
\* The paths the tests of the commands call them with: an entry of the
\* directory, existing or not.
TestList ==
    /\ pc = "idle"
    /\ \E n \in Names :
        LET r == ListLogFile(<<n>>)
        IN /\ out' = out \o r.out
           /\ calls' = Append(calls, Call("list", <<n>>, r.panic = "", fs))
    /\ caller' = "test"
    /\ pc' = "returned"
    /\ UNCHANGED <<fs, home, args, operation, fflogs_dir, path, pending, log_files, input, reads,
                   viewRet, result, panicMsg>>

TestDelete ==
    /\ pc = "idle"
    /\ \E n \in Names :
        LET r == DeleteLogFile(fs, <<n>>)
        IN /\ fs' = r.fs
           /\ out' = out \o r.out
           /\ calls' = Append(calls, Call("delete", <<n>>, r.ok, r.fs))
    /\ caller' = "test"
    /\ pc' = "returned"
    /\ UNCHANGED <<home, args, operation, fflogs_dir, path, pending, log_files, input, reads,
                   viewRet, result, panicMsg>>

TestBackup ==
    /\ pc = "idle"
    /\ \E n \in Names :
        /\ ~is_dir(fs, <<n>>)
        /\ LET r == BackupLogFile(fs, <<n>>)
           IN /\ fs' = r.fs
              /\ out' = out \o r.out
              /\ calls' = Append(calls, Call("backup", <<n>>, r.ok, r.fs))
              /\ IF r.panic # ""
                 THEN Panic(r.panic)
                 ELSE pc' = "returned" /\ UNCHANGED <<result, panicMsg>>
    /\ caller' = "test"
    /\ UNCHANGED <<home, args, operation, fflogs_dir, path, pending, log_files, input, reads, viewRet>>

\* The argument lists the tests of Config::new call it with.
TestOperationArgs ==
    {"list", "delete", "backup", "view", "LIST", "List", "Backup", "VIEW", "back", "del",
     "views", "unknown", "", "default"}
TestDirArgs == {"/path/to/logs", "/path/with spaces/logs", "default", "list"}
TestArgLists ==
    {<<"program", o, d>> : o \in TestOperationArgs, d \in TestDirArgs}
    \cup {<<"program", o, "/path/to/logs", "extra", "arguments">> : o \in TestOperationArgs}
    \cup {<<"program", o, "/path/to/logs", "view">> : o \in TestOperationArgs}
    \cup {<<>>, <<"invalid_option">>, <<"invalid_option", "invalid_option_2">>}

TestConfigNew ==
    /\ pc = "idle"
    /\ \E a \in TestArgLists :
        /\ args' = a
        /\ LET config == ConfigNew(a)
           IN IF config.panic
              THEN Panic("not enough arguments") /\ UNCHANGED <<operation, fflogs_dir>>
              ELSE /\ operation' = config.operation
                   /\ fflogs_dir' = config.fflogs_dir
                   /\ pc' = "returned"
                   /\ UNCHANGED <<result, panicMsg>>
    /\ caller' = "test"
    /\ UNCHANGED <<fs, home, path, pending, log_files, out, input, reads, calls, viewRet>>

TestView ==
    /\ pc = "idle"
    /\ \E t \in {<<"nowhere">>, <<"notes.txt">>} : path' = t
    /\ caller' = "test"
    /\ pc' = "view"
    /\ UNCHANGED <<fs, home, args, operation, fflogs_dir, pending, log_files, out, input, reads, calls,
                   viewRet, result, panicMsg>>

Next ==
    \/ MainEnv
    \/ MainConfig
    \/ MainValidate
    \/ MainReadDir
    \/ LoopSkip
    \/ LoopList
    \/ LoopDelete
    \/ LoopBackup
    \/ MainCallView
    \/ MainFinish
    \/ MainViewErr
    \/ ViewEnumerate
    \/ ViewPrompt
    \/ ViewRead
    \/ TestList
    \/ TestDelete
    \/ TestBackup
    \/ TestView
    \/ TestConfigNew

Spec == Init /\ [][Next]_vars

\* ================================================================ claims
\* The filesystem the run started from.
InitialFS == IF calls = <<>> THEN fs ELSE calls[1].pre
CallsOf(fn) == {i \in DOMAIN calls : calls[i].fn = fn}
LinesOf(tag) == {i \in DOMAIN out : out[i][1] = tag}
BakOf(p) == Join(Pop(p), "bak")
DestOf(p) == Join(BakOf(p), FileName(p))
\* The call with index i ended in a panic.
Panicked(i) == i = Len(calls) /\ result = "panic"
\* A run of main that got past the validation of its target directory.
BatchRunOf(op) == caller = "main" /\ operation = op /\ TargetKind(path) = "dir"

\* ---- C1
C1_Pre(c) ==
    /\ is_file(c.pre, c.path)
    /\ ~exists(c.pre, BakOf(c.path)) \/ is_dir(c.pre, BakOf(c.path))

C1_Post(c) ==
    /\ c.ok
    /\ ~exists(c.post, c.path)
    /\ is_file(c.post, DestOf(c.path))
    /\ Node(c.post, DestOf(c.path)).content = Node(c.pre, c.path).content
    /\ is_dir(c.post, BakOf(c.path))
    /\ \A q \in Paths \ {c.path, DestOf(c.path), BakOf(c.path)} : c.post[q] = c.pre[q]

\* C1 as stated: backup_log_file of an existing regular file F (bak absent
\* or a directory) removes F and leaves bak/filename(F) with F's content,
\* whatever was at bak/filename(F) before.
C1_AsStated ==
    \A i \in CallsOf("backup") :
        C1_Pre(calls[i]) => C1_Post(calls[i]) /\ ~Panicked(i)

\* C1 amended: the same, provided bak/filename(F) is not a directory; an
\* existing file there is replaced and the destination holds F's content.
C1_BackupMovesFile ==
    /\ \A i \in CallsOf("backup") :
        C1_Pre(calls[i]) /\ ~is_dir(calls[i].pre, DestOf(calls[i].path))
            => C1_Post(calls[i]) /\ ~Panicked(i)
    /\ calls # <<>> => fs = calls[Len(calls)].post

\* A backup replaced an older backup that had other content.
C1_Witness ==
    \E i \in CallsOf("backup") :
        /\ C1_Pre(calls[i])
        /\ is_file(calls[i].pre, DestOf(calls[i].path))
        /\ calls[i].pre[DestOf(calls[i].path)].content # calls[i].pre[calls[i].path].content
        /\ fs[DestOf(calls[i].path)].content = calls[i].pre[calls[i].path].content
        /\ ~exists(fs, calls[i].path)

\* ---- C2
\* C2: delete_log_file removes an existing file; when the removal fails it
\* reports the failure and changes nothing; a Delete run calls it for every
\* entry that is not a directory, whatever failed before, and ends with Ok.
C2_DeleteIsLocal ==
    /\ \A i \in CallsOf("delete") :
        LET c == calls[i]
        IN /\ is_file(c.pre, c.path) /\ ~c.pre[c.path].ro => c.ok
           /\ c.ok => /\ ~exists(c.post, c.path)
                      /\ \A q \in Paths \ {c.path} : c.post[q] = c.pre[q]
           /\ ~c.ok => c.post = c.pre
           /\ ~Panicked(i)
    /\ CallsOf("delete") = DOMAIN calls =>
        /\ Cardinality(LinesOf("Failed: ")) = Cardinality({i \in CallsOf("delete") : ~calls[i].ok})
        /\ Cardinality(LinesOf("Removed.")) = Cardinality({i \in CallsOf("delete") : calls[i].ok})
        /\ Cardinality(LinesOf("Removing ")) = Len(calls)
    /\ BatchRunOf("Delete") /\ pc = "exit" =>
        /\ result = "Ok"
        /\ \A n \in Names :
            Cardinality({i \in CallsOf("delete") : calls[i].path = <<n>>})
                = IF exists(InitialFS, <<n>>) /\ ~is_dir(InitialFS, <<n>>) THEN 1 ELSE 0

\* A Delete run ended with Ok after a removal failed and a later one succeeded.
C2_Witness ==
    /\ BatchRunOf("Delete") /\ pc = "exit" /\ result = "Ok"
    /\ \E i, j \in CallsOf("delete") : i < j /\ ~calls[i].ok /\ calls[j].ok

\* ---- C3
\* C3: a List run prints one listing line for each entry that is not a
\* directory and one skip notice for each directory, and no others.
C3_ListCounts ==
    BatchRunOf("List") /\ pc = "exit" =>
        /\ result = "Ok"
        /\ \A n \in Names :
            /\ Cardinality({i \in LinesOf("- ") : out[i][2] = <<n>>})
                = IF exists(InitialFS, <<n>>) /\ ~is_dir(InitialFS, <<n>>) THEN 1 ELSE 0
            /\ Cardinality({i \in LinesOf("Ignoring path as it is a directory: ") : out[i][2] = <<n>>})
                = IF is_dir(InitialFS, <<n>>) THEN 1 ELSE 0
        /\ Cardinality(LinesOf("- "))
            = Cardinality({n \in Names : exists(fs, <<n>>) /\ ~is_dir(fs, <<n>>)})
        /\ Cardinality(LinesOf("Ignoring path as it is a directory: "))
            = Cardinality({n \in Names : is_dir(fs, <<n>>)})

\* A List run over two files and a subdirectory has ended.
C3_Witness ==
    /\ BatchRunOf("List") /\ pc = "exit"
    /\ Cardinality(LinesOf("- ")) = 2
    /\ Cardinality(LinesOf("Ignoring path as it is a directory: ")) = 1

\* ---- view: common definitions
ViewDone == viewRet # "none"
\* The line that was read, parsed as the program parses it.
Chosen == ParseUsize(Trim(input.line))
\* The index in out of the prompt, which follows the header and the listing.
PromptAt == Len(log_files) + 2
NoFileRead == reads = <<>> /\ LinesOf("content") = {} /\ LinesOf("Contents of ") = {}

\* ---- C4
\* C4: in a view of one or more files, a line that trims to "0", does not
\* parse as a number, or is a number above the count gets an "invalid"
\* message, the return value Ok, and no file is read.
C4_InvalidSelection ==
    /\ ViewDone /\ input.ok /\ log_files # <<>>
    /\ \/ Trim(input.line) = <<"0">>
       \/ ~Chosen.ok
       \/ Chosen.num > Len(log_files)
    => /\ viewRet = "Ok"
       /\ NoFileRead
       /\ Len(out) >= PromptAt + 1
       /\ out[PromptAt + 1] =
            IF Chosen.ok
            THEN <<"Invalid selection. Please choose a number between 1 and ",
                   ToDecimal(Len(log_files))>>
            ELSE <<"Invalid input. Please enter a number.", <<>> >>
       /\ \A i \in (PromptAt + 2)..Len(out) : out[i][1] = "Completed in: "
       /\ pc = "exit" => result = "Ok"

\* A number above the count of two or more files was entered and refused.
C4_Witness ==
    /\ ViewDone /\ input.ok /\ Len(log_files) >= 2
    /\ Chosen.ok /\ Chosen.num > Len(log_files)
    /\ out[PromptAt + 1][1] = "Invalid selection. Please choose a number between 1 and "
    /\ viewRet = "Ok"

\* ---- C5
C5_Pre ==
    /\ ViewDone /\ input.ok
    /\ Chosen.ok /\ 1 <= Chosen.num /\ Chosen.num <= Len(log_files)

\* The header, the separator and the selection of entry N.
C5_Selects ==
    LET N == Chosen.num
        file == log_files[N]
    IN /\ reads = <<file>>
       /\ Len(out) >= PromptAt + 3
       /\ out[1 + N] = <<"listing", Append(ToDecimal(N), FileName(file))>>
       /\ out[PromptAt + 1] = <<"Contents of ", <<FileName(file)>> >>
       /\ out[PromptAt + 2][1] = "separator"
       /\ Len(out[PromptAt + 2][2]) = 50
       /\ \A i \in 1..50 : out[PromptAt + 2][2][i] = "="
       /\ \A i \in (PromptAt + 4)..Len(out) : out[i][1] = "Completed in: "
       /\ viewRet = "Ok"

\* C5 as stated: for every N in 1..count the output is the header naming
\* entry N of the listing, 50 '=' and then that file's full content.
C5_AsStated ==
    C5_Pre => /\ C5_Selects
              /\ out[PromptAt + 3] = <<"content", <<fs[log_files[Chosen.num]].content>> >>

\* C5 amended: for every N in 1..count the file read is entry N of the
\* listing and the output is the header naming it, 50 '=' and then that
\* file's full content when it is UTF-8 text, or else an error notice.
C5_ViewPrintsSelected ==
    C5_Pre => /\ C5_Selects
              /\ out[PromptAt + 3] =
                    IF fs[log_files[Chosen.num]].content # BIN
                    THEN <<"content", <<fs[log_files[Chosen.num]].content>> >>
                    ELSE <<"Error reading file: ", <<FileName(log_files[Chosen.num])>> >>

\* The second of two or more listed files was chosen and its text printed.
C5_Witness ==
    /\ C5_Pre /\ Chosen.num = 2
    /\ fs[log_files[1]].content # fs[log_files[2]].content
    /\ out[PromptAt + 3] = <<"content", <<fs[log_files[2]].content>> >>

\* ---- C6
\* C6: a view of a directory without regular files prints the "no log
\* files" notice and returns Ok; it prints no listing and no prompt and
\* does not read standard input.
C6_EmptyView ==
    /\ pc \in {"view_list", "view_read"} => \E n \in Names : is_file(fs, <<n>>)
    /\ ViewDone /\ TargetKind(path) = "dir" /\ (\A n \in Names : ~is_file(fs, <<n>>))
        => /\ viewRet = "Ok"
           /\ Len(out) >= 1
           /\ out[1] = <<"No log files found in directory: ", path>>
           /\ \A i \in 2..Len(out) : out[i][1] = "Completed in: "
           /\ input = NoInput
           /\ NoFileRead
           /\ pc = "exit" => result = "Ok"

\* A view of a directory that holds only a subdirectory has returned.
C6_Witness ==
    /\ ViewDone /\ TargetKind(path) = "dir" /\ caller = "main"
    /\ \A n \in Names : ~is_file(fs, <<n>>)
    /\ \E n \in Names : is_dir(fs, <<n>>)
    /\ out[1][1] = "No log files found in directory: "

\* ---- C7
\* C7: when the target path is not a directory the run prints the
\* diagnostic and ends with InvalidInput; no command is called and nothing
\* is enumerated, whatever the operation.
C7_InvalidTarget ==
    caller = "main" /\ path # <<>> /\ TargetKind(path) # "dir" /\ pc # "validate"
        => /\ pc = "exit"
           /\ result = "Err(InvalidInput)"
           /\ out = << <<"Not a valid directory: ", path>> >>
           /\ calls = <<>>
           /\ viewRet = "none"
           /\ log_files = <<>>
           /\ pending = {}

\* A delete run on a path that is a file, in a directory that has files.
C7_Witness ==
    /\ caller = "main" /\ path = <<"notes.txt">> /\ operation = "Delete"
    /\ result = "Err(InvalidInput)"
    /\ \E n \in Names : is_file(fs, <<n>>)

\* ---- C8
CreateFails(c) == exists(c.pre, BakOf(c.path)) /\ ~is_dir(c.pre, BakOf(c.path))

C9_AsStated ==
    viewRet \notin {"none", "Ok"} => TargetKind(path) # "dir"

\* C9 amended: view_log_files returns an error exactly when the
\* enumeration fails, the flush of the prompt fails or the read of the
\* line fails; on every other branch it returns Ok.
C9_ViewErrors ==
    /\ viewRet \in {"none", "Ok", "Err(read_dir)", "Err(flush)", "Err(read_line)"}
    /\ ViewDone =>
        /\ viewRet = "Err(read_dir)" <=> TargetKind(path) # "dir"
        /\ viewRet = "Err(flush)" <=>
            TargetKind(path) = "dir" /\ log_files # <<>> /\ input = NoInput
        /\ viewRet = "Err(read_line)" <=> input # NoInput /\ ~input.ok
    /\ ViewDone /\ caller = "main" /\ pc = "exit" => result = viewRet

\* The read of the line failed after the listing, and view returned it.
C9_Witness ==
    /\ viewRet = "Err(read_line)" /\ log_files # <<>>
    /\ LinesOf("Enter the number of the file you want to view: ") # {}

\* ---- C10
\* C10 as stated: with a directory argument other than "default" the run
\* does not fail because the home variable is unset.
C10_AsStated ==
    caller = "main" /\ Len(args) >= 3 /\ args[3] # "default"
        => panicMsg # "No HOME directory"

\* C10 amended: the home variable is read at the start of every run, which
\* panics when it is unset, whatever the directory argument; its value is
\* used only for the argument "default", any other argument being the
\* target path verbatim.
C10_HomeAlwaysRead ==
    caller = "main" =>
        /\ home = Unset <=> panicMsg = "No HOME directory"
        /\ home = Unset => pc = "exit" /\ result = "panic" /\ path = <<>>
        /\ path # <<>> =>
            path = IF args[3] = "default" THEN <<home, DefaultSuffix>> ELSE <<args[3]>>

\* A run with an existing directory as argument panicked for the variable.
C10_Witness ==
    /\ caller = "main" /\ Len(args) >= 3 /\ args[3] = "logs"
    /\ result = "panic" /\ panicMsg = "No HOME directory"

\* ---- C11
\* What the claim says args[1] selects.
C11_Selected(word) ==
    IF word = "backup" THEN "Backup"
    ELSE IF word = "delete" THEN "Delete"
    ELSE IF word = "view" THEN "View"
    ELSE "List"

\* C11: for an argument list of three or more, Config::new selects Backup,
\* Delete, List or View exactly for the lower-case words "backup",
\* "delete", "list", "view", List for any other word, takes args[2]
\* unchanged as fflogs_dir and ignores further arguments.
C11_ConfigNew ==
    /\ fflogs_dir # NoDir =>
        /\ Len(args) >= 3
        /\ operation = C11_Selected(args[2])
        /\ fflogs_dir = args[3]
        /\ operation = "Backup" <=> args[2] = "backup"
        /\ operation = "Delete" <=> args[2] = "delete"
        /\ operation = "View" <=> args[2] = "view"
        /\ args[2] \in {"LIST", "back"} => operation = "List"
    /\ panicMsg = "not enough arguments" => Len(args) < 3 /\ fflogs_dir = NoDir
    /\ caller = "main" /\ home # Unset /\ pc # "config" /\ Len(args) >= 3 => fflogs_dir # NoDir
    /\ caller = "test" /\ Len(args) >= 3 => fflogs_dir # NoDir

\* Config::new was given the prefix "back" and two extra arguments.
C11_Witness ==
    /\ caller = "test" /\ fflogs_dir = "/path/to/logs"
    /\ Len(args) = 5 /\ args[2] = "back"
    /\ operation = "List"

\* ---- C12
SkipsOf(n) == {i \in LinesOf("Ignoring path as it is a directory: ") : out[i][2] = <<n>>}

\* C12: in a List, Delete or Backup run no path that is a directory when
\* the enumeration yields it is passed to the operation; it only gets a skip
\* notice.  That holds for the bak directory a Backup run creates while it
\* enumerates: when it is yielded it is skipped, never moved.
C12_DirectoriesSkipped ==
    caller = "main" =>
        /\ \A i \in DOMAIN calls : ~is_dir(calls[i].pre, calls[i].path)
        /\ \A n \in Names :
            /\ is_dir(fs, <<n>>) => \A i \in DOMAIN calls : calls[i].path # <<n>>
            /\ SkipsOf(n) # {} => is_dir(fs, <<n>>)
            /\ Cardinality(SkipsOf(n)) <= 1
            /\ is_dir(fs, <<n>>) /\ n \in pending => SkipsOf(n) = {}
            /\ is_dir(InitialFS, <<n>>) /\ pc = "exit" /\ result = "Ok" /\ operation # "View"
                => Cardinality(SkipsOf(n)) = 1
        /\ is_dir(fs, <<"bak">>) /\ ~is_dir(InitialFS, <<"bak">>) =>
            /\ operation = "Backup" /\ ~exists(InitialFS, <<"bak">>)
            /\ \A n \in Names : fs[<<"bak", n>>] \in {Absent} \cup {InitialFS[<<n>>]}

\* A Backup run created bak, moved two files into it, was handed bak by the
\* enumeration and skipped it.
C12_Witness ==
    /\ BatchRunOf("Backup") /\ pc = "exit" /\ result = "Ok"
    /\ ~exists(InitialFS, <<"bak">>)
    /\ SkipsOf("bak") # {}
    /\ Cardinality({i \in CallsOf("backup") : calls[i].ok}) >= 2
    /\ fs[<<"bak", "bak">>] = Absent

====
